---- MODULE Spec2Model ----
(***************************************************************************)
(* A model of proteinprep.py: the line-oriented PDB cleaner (clean_pdb),   *)
(* the bounded-retry fetcher (download_pdb) and the per-target pipeline of *)
(* main; and of proteinprep_gui.py: the event loop of the window and the   *)
(* thread that streams the output of the subordinate process.  Text is     *)
(* modelled as sequences of one-character strings so that slicing,         *)
(* stripping, upper-casing and prefix tests are computed as the Python     *)
(* code computes them.                                                     *)
(***************************************************************************)
EXTENDS Integers, Sequences, FiniteSets, TLC

\* ------------------------------------------------------------------ bounds
\* Longest input file (in lines) given to clean_pdb.
MaxLines == 3
\* Largest `retries` argument tried on download_pdb.
MaxRetries == 3
\* Longest target list of one run of main.
MaxTargets == 2
\* Most runs started from one window of the graphical front-end.
MaxRuns == 2
\* Most lines one subordinate process of the front-end writes.
MaxOutput == 2

\* ------------------------------------------------------------------ text
Min(a, b) == IF a < b THEN a ELSE b

\* Characters str.strip() removes.
WS == {" ", "\n"}

\* str.upper(), one character.
UpperChar(c) ==
  CASE c = "a" -> "A"
    [] c = "b" -> "B"
    [] c = "h" -> "H"
    [] c = "o" -> "O"
    [] c = "e" -> "E"
    [] c = "m" -> "M"
    [] c = "w" -> "W"
    [] c = "x" -> "X"
    [] OTHER -> c

\* str.upper()
Upper(s) == [i \in 1..Len(s) |-> UpperChar(s[i])]

RECURSIVE LStrip(_)
LStrip(s) == IF s # <<>> /\ Head(s) \in WS THEN LStrip(Tail(s)) ELSE s

RECURSIVE RStrip(_)
RStrip(s) ==
  IF s # <<>> /\ s[Len(s)] \in WS THEN RStrip(SubSeq(s, 1, Len(s) - 1)) ELSE s

\* str.strip()
Strip(s) == RStrip(LStrip(s))

\* Python s[a:b] for 0 <= a <= b: the slice is cut at the end of s.
Slice(s, a, b) == SubSeq(s, a + 1, Min(b, Len(s)))

\* str.startswith(p)
StartsWith(s, p) == Len(s) >= Len(p) /\ SubSeq(s, 1, Len(p)) = p

\* x in list
InList(x, l) == \E i \in 1..Len(l) : l[i] = x

\* ------------------------------------------------------------------ lines
\* Columns 7-17 of a coordinate record (serial number, atom name, altLoc).
Filler == <<" ", " ", " ", " ", "1", " ", " ", "C", "A", " ", " ">>
NL == <<"\n">>

sATOM == <<"A", "T", "O", "M", " ", " ">>
sHETATM == <<"H", "E", "T", "A", "T", "M">>
sTER == <<"T", "E", "R">>
sEND == <<"E", "N", "D">>

\* A coordinate line: record name, filler, residue name (cols 18-20), a
\* blank (col 21), the chain identifier (col 22), the rest.
Coord(rec, res, ch) == rec \o Filler \o res \o <<" ">> \o ch \o <<" ", "1">> \o NL

LAtomA == Coord(sATOM, <<"A", "L", "A">>, <<"A">>)
LHemA == Coord(sHETATM, <<"H", "E", "M">>, <<"A">>)
LHohB == Coord(sHETATM, <<"H", "O", "H">>, <<"B">>)
\* lower-case residue name and chain: comparisons are case-insensitive
LHohLower == Coord(sHETATM, <<"h", "o", "h">>, <<"a">>)
\* a water named in an ATOM record
LWatAtom == Coord(sATOM, <<"W", "A", "T">>, <<"A">>)
\* a coordinate line with a blank chain column
LAtomBlank == Coord(sATOM, <<"A", "L", "A">>, <<" ">>)
\* a heteroatom line that ends after the residue name (20 characters)
LHemShort == sHETATM \o Filler \o <<"H", "E", "M">>
LTer == sTER \o NL
LEnd == sEND \o NL
LHeader == <<"H", "E", "A", "D", "E", "R", " ", "x">> \o NL
\* "ATOM" followed by a newline is not an ATOM record ("ATOM  " is needed)
LAtomBare == <<"A", "T", "O", "M">> \o NL

SampleLines ==
  {LAtomA, LHemA, LHohB, LHohLower, LWatAtom, LAtomBlank, LHemShort,
   LTer, LEnd, LHeader, LAtomBare}

\* Every file of at most n sample lines.
FilesUpTo(n) == UNION {[1..k -> SampleLines] : k \in 0..n}

\* ------------------------------------------------------------------ clean_pdb
\* The filter configuration as passed to clean_pdb.  Python's None and []
\* are both falsy and the code only tests truthiness, so <<>> stands for both.
cA == <<"A">>
cLowerC == <<" ", "c">>
cLowerB == <<"b">>
rHemLower == <<"h", "e", "m">>
\* a water name in the ligand allow-list
rHohLower == <<"h", "o", "h", " ">>
ChainArgs == {<<>>, <<cA>>, <<cLowerC, cLowerB>>}
LigandArgs == {<<>>, <<rHemLower>>, <<rHemLower, rHohLower>>}
Configs ==
  [remove_waters : BOOLEAN, remove_hetero : BOOLEAN,
   keep_chains : ChainArgs, keep_ligands : LigandArgs]

\* keep_chains / keep_ligands after the normalisation at the top of clean_pdb
NormList(l) == [i \in 1..Len(l) |-> Upper(Strip(l[i]))]

Waters == {<<"H", "O", "H">>, <<"H", "2", "O">>, <<"W", "A", "T">>}

\* line.startswith(("ATOM  ", "HETATM", "TER", "END"))
IsRecord(line) ==
  \/ StartsWith(line, sATOM)
  \/ StartsWith(line, sHETATM)
  \/ StartsWith(line, sTER)
  \/ StartsWith(line, sEND)

\* rec = line[0:6].strip()
Rec(line) == Strip(Slice(line, 0, 6))
\* chain_id = line[21:22].strip() if len(line) >= 22 else ""
ChainId(line) == IF Len(line) >= 22 THEN Strip(Slice(line, 21, 22)) ELSE <<>>
\* resname = line[17:20].strip().upper() if len(line) >= 20 else ""
ResName(line) == IF Len(line) >= 20 THEN Upper(Strip(Slice(line, 17, 20))) ELSE <<>>

\* What one iteration of the loop does with a line, for normalised lists kc
\* and kl: "other" (passed over), "chain", "water", "hetero" (dropped and
\* counted) or "write".
DispositionWaterFirst(line, rw, rh, kc, kl) ==
  IF ~IsRecord(line) THEN "other"
  ELSE IF rw /\ ResName(line) \in Waters THEN "water"
  ELSE IF kc # <<>> /\ ChainId(line) # <<>> /\ ~InList(Upper(ChainId(line)), kc)
    THEN "chain"
  ELSE IF rh /\ Rec(line) = sHETATM /\ ~InList(ResName(line), kl) THEN "hetero"
  ELSE "write"

DispositionKeepOther(line, rw, rh, kc, kl) ==
  IF kc # <<>> /\ ChainId(line) # <<>> /\ ~InList(Upper(ChainId(line)), kc)
    THEN "chain"
  ELSE IF rw /\ ResName(line) \in Waters THEN "water"
  ELSE IF rh /\ Rec(line) = sHETATM /\ ~InList(ResName(line), kl) THEN "hetero"
  ELSE "write"

\* the heteroatom rule tested before the water rule
DispositionHeteroFirst(line, rw, rh, kc, kl) ==
  IF ~IsRecord(line) THEN "other"
  ELSE IF kc # <<>> /\ ChainId(line) # <<>> /\ ~InList(Upper(ChainId(line)), kc)
    THEN "chain"
  ELSE IF rh /\ Rec(line) = sHETATM /\ ~InList(ResName(line), kl) THEN "hetero"
  ELSE IF rw /\ ResName(line) \in Waters THEN "water"
  ELSE "write"

Disposition(line, rw, rh, kc, kl) ==
  IF ~IsRecord(line) THEN "other"
  ELSE IF kc # <<>> /\ ChainId(line) # <<>> /\ ~InList(Upper(ChainId(line)), kc)
    THEN "chain"
  ELSE IF rw /\ ResName(line) \in Waters THEN "water"
  ELSE IF rh /\ Rec(line) = sHETATM /\ ~InList(ResName(line), kl) THEN "hetero"
  ELSE "write"

NoneRemoved == [waters |-> 0, hetero_residues |-> 0, skipped_chains |-> 0]

\* the `continue` after the water count is missing: the line is counted
\* and written as well
CleanStepWaterFallsThrough(st, line, cfg) ==
  LET d == Disposition(line, cfg.remove_waters, cfg.remove_hetero,
                       NormList(cfg.keep_chains), NormList(cfg.keep_ligands))
  IN CASE d = "chain" ->
            [st EXCEPT !.removed.skipped_chains = @ + 1]
       [] d = "water" ->
            [st EXCEPT !.removed.waters = @ + 1,
                       !.out = Append(@, line), !.wrote_any = TRUE]
       [] d = "hetero" ->
            [st EXCEPT !.removed.hetero_residues = @ + 1]
       [] d = "write" ->
            [st EXCEPT !.out = Append(@, line), !.wrote_any = TRUE]
       [] OTHER -> st
\* The loop body applied to the state st = [out, removed, wrote_any].
CleanStep(st, line, cfg) ==
  LET d == Disposition(line, cfg.remove_waters, cfg.remove_hetero,
                       NormList(cfg.keep_chains), NormList(cfg.keep_ligands))
  IN CASE d = "chain" ->
            [st EXCEPT !.removed.skipped_chains = @ + 1]
       [] d = "water" ->
            [st EXCEPT !.removed.waters = @ + 1]
       [] d = "hetero" ->
            [st EXCEPT !.removed.hetero_residues = @ + 1]
       [] d = "write" ->
            [st EXCEPT !.out = Append(@, line), !.wrote_any = TRUE]
       [] OTHER -> st

\* if not wrote_any: raise RuntimeError(...)
EmptyResultNever(w) == FALSE
EmptyResult(w) == ~w

RECURSIVE CleanFold(_, _, _)
\* the loop of clean_pdb over the lines of a file
CleanFold(st, lines, cfg) ==
  IF lines = <<>> THEN st
  ELSE CleanFold(CleanStep(st, Head(lines), cfg), Tail(lines), cfg)

CleanStart == [out |-> <<>>, removed |-> NoneRemoved, wrote_any |-> FALSE]

\* clean_pdb as one call: the lines written to output_pdb, the summary, and
\* whether the call raised
CleanPdb(lines, cfg) ==
  LET st == CleanFold(CleanStart, lines, cfg)
  IN [out |-> st.out, removed |-> st.removed,
      raised |-> EmptyResult(st.wrote_any)]

\* ------------------------------------------------------------------ paths
\* str.isalnum() over the characters that occur in targets
Alnum == {"1", "4", "a", "w", "A", "W", "x", "p", "d", "b"}
IsAlnum(s) == s # <<>> /\ \A i \in 1..Len(s) : s[i] \in Alnum

\* the largest index of c in s, 0 when there is none
LastIndex(s, c) ==
  LET I == {i \in 1..Len(s) : s[i] = c}
  IN IF I = {} THEN 0 ELSE CHOOSE i \in I : \A j \in I : j <= i

\* os.path.basename
Basename(p) == SubSeq(p, LastIndex(p, "/") + 1, Len(p))

\* os.path.splitext(name)[0] for a name without directory part: the
\* extension starts at the last dot unless that dot leads the name
SplitExtRoot(name) ==
  LET k == LastIndex(name, ".")
  IN IF k > 1 /\ \E i \in 1..(k - 1) : name[i] # "." THEN SubSeq(name, 1, k - 1)
     ELSE name

\* os.path.join(out_dir, name) for the default --out-dir "."
OutDir == <<".">>
Join(dir, name) == dir \o <<"/">> \o name

extPdb == <<".", "p", "d", "b">>
extClean == <<"_", "c", "l", "e", "a", "n", ".", "p", "d", "b">>
extAddedH == <<"_", "a", "d", "d", "e", "d", "_", "h", ".", "p", "d", "b">>
extPdbqt == <<".", "p", "d", "b", "q", "t">>

\* ------------------------------------------------------------------ samples
tId == <<"1", "a", "4", "w">>
tIdUpper == <<"1", "A", "4", "W">>
\* five characters, no such file
tLong == <<"1", "a", "4", "w", "x">>
\* four characters, one of them not alphanumeric
tDash == <<"1", "-", "4", "w">>
\* local files that exist when the run starts
tLocal == <<"x", ".", "p", "d", "b">>
tLocalWater == <<"w", ".", "p", "d", "b">>
SampleTargets == {tId, tIdUpper, tLong, tDash, tLocal, tLocalWater}

FileGood == <<LHeader, LAtomA, LHemA, LHohB, LEnd>>
FileWater == <<LHohB, LHohLower>>
\* the response body of the remote host for an identifier
RemoteBody == <<LAtomA, LAtomBlank, LTer>>

\* the files present before a run
InitialFs == [p \in {tLocal, tLocalWater} |-> IF p = tLocal THEN FileGood ELSE FileWater]

\* f with path p holding content c
Write(f, p, c) == [q \in DOMAIN f \cup {p} |-> IF q = p THEN c ELSE f[q]]

\* the exceptions of the model: a type, a message, and for download_pdb's
\* terminal error the last failure and the attempt count it is formatted with
Exc(type, msg, last, n) == [type |-> type, msg |-> msg, last_err |-> last, attempts |-> n]

NoExc == Exc("None", "", "None", 0)

\* ------------------------------------------------------------------ state
VARIABLES
  c_pc,       \* clean_pdb: "idle", "loop", "returned" or "raised"
  c_lines,    \* clean_pdb: the lines of input_pdb
  c_cfg,      \* clean_pdb: the filter configuration
  c_pos,      \* clean_pdb: index of the next line of fin
  c_st,       \* clean_pdb: [out: lines written to fout, removed, wrote_any]
  fs,         \* the file system: path -> lines, for the paths that exist
  requested,  \* the identifiers requested from the remote host so far
  d_pc,       \* download_pdb: "idle", "attempt", "returned" or "raised"
  d_id,       \* download_pdb: pdb_id
  d_path,     \* download_pdb: out_path
  d_retries,  \* download_pdb: retries
  d_attempt,  \* download_pdb: the loop variable attempt
  d_last_err, \* download_pdb: last_err
  d_exc,      \* download_pdb: the exception the call ended with
  d_results,  \* download_pdb: how each requests.get of this call ended
  avail,      \* whether obabel (or babel) is on the PATH now
  tool_log,   \* the external tool invocations made so far
  args,       \* main: the command-line arguments
  r_pc,       \* main: "off", "start", "probe", "loop", "log", "finished", "exit1", "crashed"
  targets,    \* main: targets
  obabel_ready, \* main: obabel_ready
  reports,    \* main: reports
  log_doc,    \* the documents written to proteinprep_log.json, in order
  t_idx,      \* main: index in targets of the loop variable t
  t_pc,       \* main: the step of the current target
  loc,        \* main: the locals of the loop body
  t_exc,      \* main: the exception the try block raised
  g_pc,       \* gui main: "off", "read" (in window.read), "dispatch", "tail", "closed"
  g_event,    \* gui main: event and values[event] of the last window.read
  g_queue,    \* the window's queue of events written by threads
  g_log,      \* the content of the "-LOG-" widget
  g_run_disabled, \* whether the Run button is disabled
  g_procs     \* the runs started: one subordinate process and thread each

cleanVars == <<c_pc, c_lines, c_cfg, c_pos, c_st>>
dlVars == <<d_pc, d_id, d_path, d_retries, d_attempt, d_last_err, d_exc, d_results>>
envVars == <<fs, requested>>
mainVars ==
  <<avail, tool_log, args, r_pc, targets, obabel_ready, reports, log_doc,
    t_idx, t_pc, loc, t_exc>>
guiVars == <<g_pc, g_event, g_queue, g_log, g_run_disabled, g_procs>>
coreVars == <<cleanVars, dlVars, envVars, mainVars>>
vars == <<coreVars, guiVars>>

\* ------------------------------------------------------------------ clean_pdb, stepwise
CleanIdle ==
  /\ c_pc = "idle"
  /\ c_lines = <<>>
  /\ c_cfg = [remove_waters |-> TRUE, remove_hetero |-> TRUE,
              keep_chains |-> <<>>, keep_ligands |-> <<>>]
  /\ c_pos = 1
  /\ c_st = CleanStart

DownloadIdle ==
  /\ d_pc = "idle"
  /\ d_id = <<>>
  /\ d_path = <<>>
  /\ d_retries = 0
  /\ d_attempt = 0
  /\ d_last_err = "None"
  /\ d_exc = NoExc
  /\ d_results = <<>>

\* the locals of main's loop body before a target is resolved
NoLocals ==
  [fetched |-> <<>>, pdb_label |-> <<>>, cleaned |-> <<>>, processed |-> <<>>,
   report |-> [input |-> <<>>]]

NoBatch == [given |-> FALSE, exists |-> FALSE, lines |-> <<>>]

\* main is not running
MainOff ==
  /\ avail = FALSE
  /\ tool_log = <<>>
  /\ args = [pdb |-> <<>>, batch_file |-> NoBatch, remove_waters |-> TRUE,
             remove_hetero |-> TRUE, keep_chains |-> <<>>, keep_ligands |-> <<>>,
             auto_add_h |-> FALSE, auto_pdbqt |-> FALSE]
  /\ r_pc = "off"
  /\ targets = <<>>
  /\ obabel_ready = FALSE
  /\ reports = <<>>
  /\ log_doc = <<>>
  /\ t_idx = 0
  /\ t_pc = "none"
  /\ loc = NoLocals
  /\ t_exc = NoExc

\* an event: its key and value (a line or a return code)
Event(key, line, rc) == [key |-> key, line |-> line, rc |-> rc]
NoEvent == Event("None", <<>>, 0)

\* the graphical front-end is not running
GuiOff ==
  /\ g_pc = "off"
  /\ g_event = NoEvent
  /\ g_queue = <<>>
  /\ g_log = <<>>
  /\ g_run_disabled = FALSE
  /\ g_procs = <<>>

\* clean_pdb called on some file under some configuration
InitClean ==
  /\ c_pc = "loop"
  /\ c_lines \in FilesUpTo(MaxLines)
  /\ c_cfg \in Configs
  /\ c_pos = 1
  /\ c_st = CleanStart
  /\ DownloadIdle
  /\ fs = InitialFs
  /\ requested = {}
  /\ MainOff
  /\ GuiOff

\* for line in fin: ...
CleanLine ==
  /\ c_pc = "loop"
  /\ c_pos <= Len(c_lines)
  /\ c_st' = CleanStep(c_st, c_lines[c_pos], c_cfg)
  /\ c_pos' = c_pos + 1
  /\ UNCHANGED <<c_pc, c_lines, c_cfg, dlVars, envVars, mainVars, guiVars>>

\* the end of the file: raise on an empty result, else return removed
CleanFinish ==
  /\ c_pc = "loop"
  /\ c_pos > Len(c_lines)
  /\ c_pc' = IF EmptyResult(c_st.wrote_any) THEN "raised" ELSE "returned"
  /\ UNCHANGED <<c_lines, c_cfg, c_pos, c_st, dlVars, envVars, mainVars, guiVars>>

NextClean == CleanLine \/ CleanFinish

SpecClean == InitClean /\ [][NextClean]_vars

\* ------------------------------------------------------------------ download_pdb
\* retries: int = 3
DefaultRetries == 3

\* for attempt in range(1, retries + 1): the loop has another iteration
HasAttemptOffByOne(attempt, retries) == attempt <= retries + 1
HasAttempt(attempt, retries) == attempt <= retries

\* raise RuntimeError(f"Failed to download {pdb_id} after {retries} attempts: {last_err}")
DownloadError(retries, last_err) ==
  Exc("RuntimeError", "Failed to download", last_err, retries)

\* the frame of a finished call is dropped
DownloadExit ==
  /\ d_pc' = "idle"
  /\ d_id' = <<>>
  /\ d_path' = <<>>
  /\ d_retries' = 0
  /\ d_attempt' = 0
  /\ d_last_err' = "None"
  /\ d_exc' = NoExc
  /\ d_results' = <<>>

\* the call download_pdb(id, path, retries) begins
DownloadCall(id, path, retries) ==
  /\ d_pc' = "attempt"
  /\ d_id' = id
  /\ d_path' = path
  /\ d_retries' = retries
  /\ d_attempt' = 1
  /\ d_last_err' = "None"
  /\ d_exc' = NoExc
  /\ d_results' = <<>>

\* download_pdb called standalone with some retries bound, the destination
\* existing or not
InitDownload ==
  /\ CleanIdle
  /\ d_pc = "attempt"
  /\ d_id \in {tId, tIdUpper}
  /\ d_path = Join(OutDir, d_id \o extPdb)
  /\ d_retries \in 0..MaxRetries
  /\ d_attempt = 1
  /\ d_last_err = "None"
  /\ d_exc = NoExc
  /\ d_results = <<>>
  /\ fs \in {InitialFs, Write(InitialFs, d_path, FileWater)}
  /\ requested = {}
  /\ MainOff
  /\ GuiOff

\* an attempt whose request succeeds and whose body is written: return
DownloadOk ==
  /\ d_pc = "attempt"
  /\ HasAttempt(d_attempt, d_retries)
  /\ requested' = requested \cup {Upper(d_id)}
  /\ d_results' = Append(d_results, "ok")
  /\ fs' = Write(fs, d_path, RemoteBody)
  /\ d_pc' = "returned"
  /\ UNCHANGED <<d_id, d_path, d_retries, d_attempt, d_last_err, d_exc, cleanVars, mainVars, guiVars>>

\* the destination is opened for writing before the request is made, so a
\* failing attempt leaves it empty
DownloadFailTruncates ==
  /\ d_pc = "attempt"
  /\ HasAttempt(d_attempt, d_retries)
  /\ requested' = requested \cup {Upper(d_id)}
  /\ \E e \in {"ConnectionError", "HTTPError"} :
       /\ d_results' = Append(d_results, e)
       /\ d_last_err' = e
  /\ d_attempt' = d_attempt + 1
  /\ fs' = Write(fs, d_path, <<>>)
  /\ UNCHANGED <<d_pc, d_id, d_path, d_retries, d_exc, cleanVars, mainVars, guiVars>>
\* an attempt that ends in a requests.RequestException (the request failed,
\* or raise_for_status() on a non-success status): remember it, sleep, loop
DownloadFail ==
  /\ d_pc = "attempt"
  /\ HasAttempt(d_attempt, d_retries)
  /\ requested' = requested \cup {Upper(d_id)}
  /\ \E e \in {"ConnectionError", "HTTPError"} :
       /\ d_results' = Append(d_results, e)
       /\ d_last_err' = e
  /\ d_attempt' = d_attempt + 1
  /\ UNCHANGED <<d_pc, d_id, d_path, d_retries, d_exc, fs, cleanVars, mainVars, guiVars>>

\* an attempt whose request succeeds but whose open()/write() of out_path
\* raises OSError: not a RequestException, so it leaves the call at once; the
\* file may have been created or truncated, or not touched at all
DownloadWriteError ==
  /\ d_pc = "attempt"
  /\ HasAttempt(d_attempt, d_retries)
  /\ requested' = requested \cup {Upper(d_id)}
  /\ d_results' = Append(d_results, "ok")
  /\ fs' \in {fs, Write(fs, d_path, SubSeq(RemoteBody, 1, 1))}
  /\ d_pc' = "raised"
  /\ d_exc' = Exc("OSError", "write failed", "None", 0)
  /\ UNCHANGED <<d_id, d_path, d_retries, d_attempt, d_last_err, cleanVars, mainVars, guiVars>>

\* the loop is exhausted: raise the terminal error
DownloadGiveUp ==
  /\ d_pc = "attempt"
  /\ ~HasAttempt(d_attempt, d_retries)
  /\ d_pc' = "raised"
  /\ d_exc' = DownloadError(d_retries, d_last_err)
  /\ UNCHANGED <<d_id, d_path, d_retries, d_attempt, d_last_err, d_results, envVars, cleanVars, mainVars, guiVars>>

NextDownload == DownloadOk \/ DownloadFail \/ DownloadWriteError \/ DownloadGiveUp

SpecDownload == InitDownload /\ [][NextDownload]_vars
\* the interpreter keeps running the call: every attempt ends (the request
\* has a timeout, the sleep is finite)
SpecDownloadFair == SpecDownload /\ WF_vars(NextDownload)

\* ------------------------------------------------------------------ main
RECURSIVE SplitComma(_)
\* str.split(",")
SplitComma(s) ==
  LET I == {i \in 1..Len(s) : s[i] = ","}
  IN IF I = {} THEN <<s>>
     ELSE LET k == CHOOSE i \in I : \A j \in I : i <= j
          IN <<SubSeq(s, 1, k - 1)>> \o SplitComma(SubSeq(s, k + 1, Len(s)))

\* [c.strip().upper() for c in opt.split(",")] if opt else None
OptionList(opt) == IF opt # <<>> THEN NormList(SplitComma(opt)) ELSE <<>>

RECURSIVE TargetsOfUnstripped(_)
\* [ln for ln in f if ln.strip()]
TargetsOfUnstripped(lines) ==
  IF lines = <<>> THEN <<>>
  ELSE IF Strip(Head(lines)) # <<>>
    THEN <<Head(lines)>> \o TargetsOfUnstripped(Tail(lines))
  ELSE TargetsOfUnstripped(Tail(lines))

RECURSIVE TargetsOf(_)
\* [ln.strip() for ln in f if ln.strip()]
TargetsOf(lines) ==
  IF lines = <<>> THEN <<>>
  ELSE IF Strip(Head(lines)) # <<>>
    THEN <<Strip(Head(lines))>> \o TargetsOf(Tail(lines))
  ELSE TargetsOf(Tail(lines))

\* the filter configuration main hands to clean_pdb
FilterOf(a) ==
  [remove_waters |-> a.remove_waters, remove_hetero |-> a.remove_hetero,
   keep_chains |-> OptionList(a.keep_chains),
   keep_ligands |-> OptionList(a.keep_ligands)]

\* dict[k] = v
Put(r, k, v) == (k :> v) @@ r

\* what the external tool writes on success: its output is a function of its
\* input file and of the operation
LHydrogen == Coord(sATOM, <<"H", " ", " ">>, <<"A">>)
LRoot == <<"R", "O", "O", "T">> \o NL
ToolOutput(op, content) ==
  IF op = "add_hydrogens" THEN Append(content, LHydrogen) ELSE <<LRoot>> \o content

\* one subprocess.run of the external tool, made for the idx-th target
Invocation(idx, op, input, output, rc) ==
  [idx |-> idx, op |-> op, input |-> input, output |-> output, rc |-> rc]

\* {"cmd": ..., "rc": proc.returncode, "output": proc.stdout}
ToolResult(op, input, output, rc) ==
  [cmd |-> <<input, output, IF op = "add_hydrogens" THEN "-h" ELSE "">>,
   rc |-> rc, output |-> "stdout"]

ExitCodes == {0, 1}

ToolNotFound == Exc("RuntimeError", "OpenBabel CLI not found (obabel).", "None", 0)
InvalidTarget == Exc("Exit", "Invalid PDB identifier or file path", "None", 0)
NothingWritten == Exc("RuntimeError", "No ATOM/HETATM records written", "None", 0)
SkipReason == "OpenBabel not available"

\* the lines a batch file may hold
BatchLines ==
  {tId \o NL, tIdUpper \o NL, <<" ">> \o tLocal \o <<" ">> \o NL,
   tLocalWater \o NL, tLong \o NL, NL}
BatchFiles ==
  {[given |-> TRUE, exists |-> FALSE, lines |-> <<>>]}
  \cup {[given |-> TRUE, exists |-> TRUE, lines |-> l] :
          l \in UNION {[1..k -> BatchLines] : k \in 0..MaxTargets}}

\* --keep-chains values: absent, and "a, c"
ChainOptions == {<<>>, <<"a", ",", " ", "c">>}

Init ==
  /\ CleanIdle
  /\ DownloadIdle
  /\ fs = InitialFs
  /\ requested = {}
  /\ avail \in BOOLEAN
  /\ tool_log = <<>>
  /\ \E b \in BatchFiles \cup {NoBatch}, p \in SampleTargets,
        kc \in ChainOptions, h \in BOOLEAN, q \in BOOLEAN :
       /\ b.given => p = tId
       /\ args = [pdb |-> p, batch_file |-> b, remove_waters |-> TRUE,
                  remove_hetero |-> TRUE, keep_chains |-> kc,
                  keep_ligands |-> <<>>, auto_add_h |-> h, auto_pdbqt |-> q]
  /\ r_pc = "start"
  /\ targets = <<>>
  /\ obabel_ready = FALSE
  /\ reports = <<>>
  /\ log_doc = <<>>
  /\ t_idx = 0
  /\ t_pc = "none"
  /\ loc = NoLocals
  /\ t_exc = NoExc
  /\ GuiOff

\* the missing batch file is passed over and the single argument processed
BatchMissingGoesOn ==
  /\ r_pc = "start"
  /\ args.batch_file.given /\ ~args.batch_file.exists
  /\ targets' = <<args.pdb>>
  /\ r_pc' = "probe"
  /\ UNCHANGED <<avail, tool_log, args, obabel_ready, reports, log_doc,
                 t_idx, t_pc, loc, t_exc, cleanVars, dlVars, envVars, guiVars>>
\* the batch file does not exist: raise typer.Exit(code=1)
BatchMissing ==
  /\ r_pc = "start"
  /\ args.batch_file.given /\ ~args.batch_file.exists
  /\ r_pc' = "exit1"
  /\ UNCHANGED <<avail, tool_log, args, targets, obabel_ready, reports, log_doc,
                 t_idx, t_pc, loc, t_exc, cleanVars, dlVars, envVars, guiVars>>

\* targets from the batch file, or the single argument
ReadTargets ==
  /\ r_pc = "start"
  /\ args.batch_file.given => args.batch_file.exists
  /\ targets' = IF args.batch_file.given THEN TargetsOf(args.batch_file.lines)
                ELSE <<args.pdb>>
  /\ r_pc' = "probe"
  /\ UNCHANGED <<avail, tool_log, args, obabel_ready, reports, log_doc,
                 t_idx, t_pc, loc, t_exc, cleanVars, dlVars, envVars, guiVars>>

\* for t in targets: the loop starts, or ends at once on an empty list
EnterLoop ==
  /\ t_idx' = 1
  /\ IF targets = <<>> THEN r_pc' = "log" /\ t_pc' = "none"
     ELSE r_pc' = "loop" /\ t_pc' = "resolve"

\* obabel_ready = obabel_available(), no install needed or wanted
Probe ==
  /\ r_pc = "probe"
  /\ ~((args.auto_add_h \/ args.auto_pdbqt) /\ ~avail)
  /\ obabel_ready' = avail
  /\ EnterLoop
  /\ UNCHANGED <<avail, tool_log, args, targets, reports, log_doc, loc, t_exc,
                 cleanVars, dlVars, envVars, guiVars>>

\* the tool is wanted and missing: try_install_openbabel(), which makes the
\* tool available or does not
ProbeInstall ==
  /\ r_pc = "probe"
  /\ (args.auto_add_h \/ args.auto_pdbqt) /\ ~avail
  /\ \E ok \in BOOLEAN : avail' = ok /\ obabel_ready' = ok
  /\ EnterLoop
  /\ UNCHANGED <<tool_log, args, targets, reports, log_doc, loc, t_exc,
                 cleanVars, dlVars, envVars, guiVars>>

\* the loop variable
T == targets[t_idx]

\* len(t) == 4 and t.isalnum()
IsIdentifierAnyLength(t) == IsAlnum(t)
IsIdentifier(t) == Len(t) = 4 /\ IsAlnum(t)

InTarget(step) == r_pc = "loop" /\ t_pc = step

\* os.path.exists(t): use the file as it is
ResolveLocal ==
  /\ InTarget("resolve")
  /\ T \in DOMAIN fs
  /\ loc' = [loc EXCEPT !.fetched = T, !.pdb_label = SplitExtRoot(Basename(T))]
  /\ t_pc' = "clean"
  /\ UNCHANGED <<avail, tool_log, args, r_pc, targets, obabel_ready, reports,
                 log_doc, t_idx, t_exc, cleanVars, dlVars, envVars, guiVars>>

\* a 4-character alphanumeric identifier: call download_pdb(pdb_label, fetched)
ResolveFetch ==
  /\ InTarget("resolve")
  /\ T \notin DOMAIN fs
  /\ IsIdentifier(T)
  /\ loc' = [loc EXCEPT !.pdb_label = Upper(T),
                        !.fetched = Join(OutDir, Upper(T) \o extPdb)]
  /\ DownloadCall(Upper(T), Join(OutDir, Upper(T) \o extPdb), DefaultRetries)
  /\ t_pc' = "fetch"
  /\ UNCHANGED <<avail, tool_log, args, r_pc, targets, obabel_ready, reports,
                 log_doc, t_idx, t_exc, cleanVars, envVars, guiVars>>

\* anything else: raise typer.Exit("Invalid PDB identifier or file path: ...")
ResolveInvalid ==
  /\ InTarget("resolve")
  /\ T \notin DOMAIN fs
  /\ ~IsIdentifier(T)
  /\ t_pc' = "except"
  /\ t_exc' = InvalidTarget
  /\ UNCHANGED <<avail, tool_log, args, r_pc, targets, obabel_ready, reports,
                 log_doc, t_idx, loc, cleanVars, dlVars, envVars, guiVars>>

\* download_pdb returned
FetchReturned ==
  /\ InTarget("fetch")
  /\ d_pc = "returned"
  /\ t_pc' = "clean"
  /\ DownloadExit
  /\ UNCHANGED <<avail, tool_log, args, r_pc, targets, obabel_ready, reports,
                 log_doc, t_idx, loc, t_exc, cleanVars, envVars, guiVars>>

\* download_pdb raised
FetchRaised ==
  /\ InTarget("fetch")
  /\ d_pc = "raised"
  /\ t_pc' = "except"
  /\ t_exc' = d_exc
  /\ DownloadExit
  /\ UNCHANGED <<avail, tool_log, args, r_pc, targets, obabel_ready, reports,
                 log_doc, t_idx, loc, cleanVars, envVars, guiVars>>

\* cleaned = os.path.join(out_dir, f"{pdb_label}_clean.pdb")
CleanedPath == Join(OutDir, loc.pdb_label \o extClean)
\* clean_pdb(fetched, cleaned, remove_waters, remove_hetero, ...)
CleanResult == CleanPdb(fs[loc.fetched], FilterOf(args))
\* report = {"input": t, "fetched": fetched, "cleaned": cleaned}
NewReport == [input |-> T, fetched |-> loc.fetched, cleaned |-> CleanedPath]

\* the cleaned file is opened for appending instead of being truncated
CleanTargetAppends ==
  /\ InTarget("clean")
  /\ ~CleanResult.raised
  /\ fs' = Write(fs, CleanedPath,
                 (IF CleanedPath \in DOMAIN fs THEN fs[CleanedPath] ELSE <<>>)
                   \o CleanResult.out)
  /\ loc' = [loc EXCEPT !.cleaned = CleanedPath, !.processed = CleanedPath,
                        !.report = Put(NewReport, "removed", CleanResult.removed)]
  /\ t_pc' = "add_h"
  /\ UNCHANGED <<avail, tool_log, args, r_pc, targets, obabel_ready, reports,
                 log_doc, t_idx, t_exc, requested, cleanVars, dlVars, guiVars>>
\* clean_pdb returns: report["removed"] = removed; processed = cleaned.
\* clean_pdb opens (creates or truncates) the cleaned file before it reads a
\* line, so the file is written on both ways out.
CleanTarget ==
  /\ InTarget("clean")
  /\ ~CleanResult.raised
  /\ fs' = Write(fs, CleanedPath, CleanResult.out)
  /\ loc' = [loc EXCEPT !.cleaned = CleanedPath, !.processed = CleanedPath,
                        !.report = Put(NewReport, "removed", CleanResult.removed)]
  /\ t_pc' = "add_h"
  /\ UNCHANGED <<avail, tool_log, args, r_pc, targets, obabel_ready, reports,
                 log_doc, t_idx, t_exc, requested, cleanVars, dlVars, guiVars>>

\* the failure of clean_pdb is swallowed and the target goes on
CleanTargetEmptyGoesOn ==
  /\ InTarget("clean")
  /\ CleanResult.raised
  /\ fs' = Write(fs, CleanedPath, CleanResult.out)
  /\ loc' = [loc EXCEPT !.cleaned = CleanedPath, !.processed = CleanedPath,
                        !.report = NewReport]
  /\ t_pc' = "add_h"
  /\ UNCHANGED <<avail, tool_log, args, r_pc, targets, obabel_ready, reports,
                 log_doc, t_idx, t_exc, requested, cleanVars, dlVars, guiVars>>
\* clean_pdb raises: nothing was written to the cleaned file
CleanTargetEmpty ==
  /\ InTarget("clean")
  /\ CleanResult.raised
  /\ fs' = Write(fs, CleanedPath, CleanResult.out)
  /\ loc' = [loc EXCEPT !.cleaned = CleanedPath, !.report = NewReport]
  /\ t_pc' = "except"
  /\ t_exc' = NothingWritten
  /\ UNCHANGED <<avail, tool_log, args, r_pc, targets, obabel_ready, reports,
                 log_doc, t_idx, requested, cleanVars, dlVars, guiVars>>

\* if auto_add_h: is false
AddHNotRequested ==
  /\ InTarget("add_h")
  /\ ~args.auto_add_h
  /\ t_pc' = "pdbqt"
  /\ UNCHANGED <<avail, tool_log, args, r_pc, targets, obabel_ready, reports,
                 log_doc, t_idx, loc, t_exc, cleanVars, dlVars, envVars, guiVars>>

\* if obres["rc"] == 0: processed = added_h
ProcessedAfterAnyExit(rc, added_h, processed) == added_h
ProcessedAfter(rc, added_h, processed) == IF rc = 0 THEN added_h ELSE processed

\* add_hydrogens_with_obabel finds the executable and runs it
AddHRun ==
  /\ InTarget("add_h")
  /\ args.auto_add_h /\ obabel_ready
  /\ avail
  /\ \E rc \in ExitCodes :
       LET added_h == Join(OutDir, loc.pdb_label \o extAddedH)
       IN /\ tool_log' = Append(tool_log,
                                Invocation(t_idx, "add_hydrogens", loc.processed, added_h, rc))
          /\ fs' = IF rc = 0
                     THEN Write(fs, added_h, ToolOutput("add_hydrogens", fs[loc.processed]))
                     ELSE fs
          /\ loc' = [loc EXCEPT
                       !.report = Put(@, "add_hydrogens",
                                      ToolResult("add_hydrogens", loc.processed, added_h, rc)),
                       !.processed = ProcessedAfter(rc, added_h, @)]
  /\ t_pc' = "pdbqt"
  /\ UNCHANGED <<avail, args, r_pc, targets, obabel_ready, reports, log_doc,
                 t_idx, t_exc, requested, cleanVars, dlVars, guiVars>>

\* add_hydrogens_with_obabel finds no executable: raise RuntimeError
AddHToolMissing ==
  /\ InTarget("add_h")
  /\ args.auto_add_h /\ obabel_ready
  /\ ~avail
  /\ t_pc' = "except"
  /\ t_exc' = ToolNotFound
  /\ UNCHANGED <<avail, tool_log, args, r_pc, targets, obabel_ready, reports,
                 log_doc, t_idx, loc, cleanVars, dlVars, envVars, guiVars>>

\* report["add_hydrogens_skipped"] = "OpenBabel not available"
AddHSkipped ==
  /\ InTarget("add_h")
  /\ args.auto_add_h /\ ~obabel_ready
  /\ loc' = [loc EXCEPT !.report = Put(@, "add_hydrogens_skipped", SkipReason)]
  /\ t_pc' = "pdbqt"
  /\ UNCHANGED <<avail, tool_log, args, r_pc, targets, obabel_ready, reports,
                 log_doc, t_idx, t_exc, cleanVars, dlVars, envVars, guiVars>>

\* if auto_pdbqt: is false
ConvertNotRequested ==
  /\ InTarget("pdbqt")
  /\ ~args.auto_pdbqt
  /\ t_pc' = "append"
  /\ UNCHANGED <<avail, tool_log, args, r_pc, targets, obabel_ready, reports,
                 log_doc, t_idx, loc, t_exc, cleanVars, dlVars, envVars, guiVars>>

\* convert_to_pdbqt_with_obabel finds the executable and runs it
ConvertRun ==
  /\ InTarget("pdbqt")
  /\ args.auto_pdbqt /\ obabel_ready
  /\ avail
  /\ \E rc \in ExitCodes :
       LET pdbqt == Join(OutDir, loc.pdb_label \o extPdbqt)
       IN /\ tool_log' = Append(tool_log,
                                Invocation(t_idx, "pdbqt", loc.processed, pdbqt, rc))
          /\ fs' = IF rc = 0
                     THEN Write(fs, pdbqt, ToolOutput("pdbqt", fs[loc.processed]))
                     ELSE fs
          /\ loc' = [loc EXCEPT
                       !.report = Put(@, "pdbqt",
                                      ToolResult("pdbqt", loc.processed, pdbqt, rc))]
  /\ t_pc' = "append"
  /\ UNCHANGED <<avail, args, r_pc, targets, obabel_ready, reports, log_doc,
                 t_idx, t_exc, requested, cleanVars, dlVars, guiVars>>

\* convert_to_pdbqt_with_obabel finds no executable: raise RuntimeError
ConvertToolMissing ==
  /\ InTarget("pdbqt")
  /\ args.auto_pdbqt /\ obabel_ready
  /\ ~avail
  /\ t_pc' = "except"
  /\ t_exc' = ToolNotFound
  /\ UNCHANGED <<avail, tool_log, args, r_pc, targets, obabel_ready, reports,
                 log_doc, t_idx, loc, cleanVars, dlVars, envVars, guiVars>>

\* report["pdbqt_skipped"] = "OpenBabel not available"
ConvertSkipped ==
  /\ InTarget("pdbqt")
  /\ args.auto_pdbqt /\ ~obabel_ready
  /\ loc' = [loc EXCEPT !.report = Put(@, "pdbqt_skipped", SkipReason)]
  /\ t_pc' = "append"
  /\ UNCHANGED <<avail, tool_log, args, r_pc, targets, obabel_ready, reports,
                 log_doc, t_idx, t_exc, cleanVars, dlVars, envVars, guiVars>>

\* the next iteration of the loop, or its end; the locals of the body are
\* dead until they are assigned again
NextTarget ==
  /\ t_idx' = t_idx + 1
  /\ IF t_idx + 1 > Len(targets) THEN r_pc' = "log" /\ t_pc' = "none"
     ELSE r_pc' = r_pc /\ t_pc' = "resolve"
  /\ loc' = NoLocals
  /\ t_exc' = NoExc

\* reports.append(report)
TargetDone ==
  /\ InTarget("append")
  /\ reports' = Append(reports, loc.report)
  /\ NextTarget
  /\ UNCHANGED <<avail, tool_log, args, targets, obabel_ready, log_doc,
                 cleanVars, dlVars, envVars, guiVars>>

\* except Exception: RuntimeError, OSError and click's Exit (a RuntimeError)
\* are all caught
CaughtUnlessExit(e) == e.type \in {"RuntimeError", "OSError"}
Caught(e) == e.type \in {"RuntimeError", "OSError", "Exit"}

\* {"input": t, "error": str(e)}
ErrorEntryKeepsReport(t, e) == Put(loc.report, "error", e)
ErrorEntry(t, e) == [input |-> t, error |-> e]

\* except Exception as e: reports.append({"input": t, "error": str(e)}); an
\* exception the clause does not catch would leave main
TargetError ==
  /\ InTarget("except")
  /\ IF Caught(t_exc)
       THEN /\ reports' = Append(reports, ErrorEntry(T, t_exc))
            /\ NextTarget
       ELSE /\ r_pc' = "crashed"
            /\ UNCHANGED <<reports, t_idx, t_pc, loc, t_exc>>
  /\ UNCHANGED <<avail, tool_log, args, targets, obabel_ready, log_doc,
                 cleanVars, dlVars, envVars, guiVars>>

\* the document is written only when some target succeeded
WriteLogIfAnySucceeded ==
  /\ r_pc = "log"
  /\ log_doc' = IF \E i \in 1..Len(reports) : "error" \notin DOMAIN reports[i]
                  THEN Append(log_doc, reports) ELSE log_doc
  /\ r_pc' = "finished"
  /\ UNCHANGED <<avail, tool_log, args, targets, obabel_ready, reports,
                 t_idx, t_pc, loc, t_exc, cleanVars, dlVars, envVars, guiVars>>
\* json.dump(reports, fh, indent=2)
WriteLog ==
  /\ r_pc = "log"
  /\ log_doc' = Append(log_doc, reports)
  /\ r_pc' = "finished"
  /\ UNCHANGED <<avail, tool_log, args, targets, obabel_ready, reports,
                 t_idx, t_pc, loc, t_exc, cleanVars, dlVars, envVars, guiVars>>

\* the environment: the tool is removed from, or put on, the PATH while the
\* targets are processed
ToolVanish ==
  /\ r_pc = "loop"
  /\ avail
  /\ avail' = FALSE
  /\ UNCHANGED <<tool_log, args, r_pc, targets, obabel_ready, reports, log_doc,
                 t_idx, t_pc, loc, t_exc, cleanVars, dlVars, envVars, guiVars>>

ToolAppear ==
  /\ r_pc = "loop"
  /\ ~avail
  /\ avail' = TRUE
  /\ UNCHANGED <<tool_log, args, r_pc, targets, obabel_ready, reports, log_doc,
                 t_idx, t_pc, loc, t_exc, cleanVars, dlVars, envVars, guiVars>>

Next ==
  \/ BatchMissing \/ ReadTargets \/ Probe \/ ProbeInstall
  \/ ResolveLocal \/ ResolveFetch \/ ResolveInvalid
  \/ DownloadOk \/ DownloadFail \/ DownloadWriteError \/ DownloadGiveUp
  \/ FetchReturned \/ FetchRaised
  \/ CleanTarget \/ CleanTargetEmpty
  \/ AddHNotRequested \/ AddHRun \/ AddHToolMissing \/ AddHSkipped
  \/ ConvertNotRequested \/ ConvertRun \/ ConvertToolMissing \/ ConvertSkipped
  \/ TargetDone \/ TargetError \/ WriteLog
  \/ ToolVanish \/ ToolAppear

Spec == Init /\ [][Next]_vars

\* ------------------------------------------------------------------ proteinprep_gui.py
\* lines the subordinate process writes: ended by a newline, and a last
\* line that is not
gOk == <<"o", "k", "\n">>
gUnended == <<"e">>

RECURSIVE RStripNewlines(_)
\* line.rstrip("\n")
RStripNewlines(s) ==
  IF s # <<>> /\ s[Len(s)] = "\n" THEN RStripNewlines(SubSeq(s, 1, Len(s) - 1))
  ELSE s

\* what a subordinate process may write to its pipe, as the lines that
\* `for line in proc.stdout` yields
ProcessOutputs ==
  LET ended == UNION {[1..k -> {gOk, NL}] : k \in 0..MaxOutput}
  IN ended \cup {Append(o, gUnended) : o \in {f \in ended : Len(f) < MaxOutput}}

\* a run: the output of its process, how many lines the thread has read,
\* where the thread is ("stream" or "exited") and proc.returncode
Proc(out) == [out |-> out, n |-> 0, pc |-> "stream", rc |-> 0]

\* what the user may have typed in "-PDB-" (the batch field left empty)
PdbInputs == {<<>>, <<" ">>, tId}

\* f"\n[Process finished with return code {rc}]", shortened
Notice(rc) == <<"\n", "[", "r", "c", " ", IF rc = 0 THEN "0" ELSE "1", "]">>

\* window = sg.Window(...); thread = None; the first window.read
InitGui ==
  /\ CleanIdle
  /\ DownloadIdle
  /\ fs = InitialFs
  /\ requested = {}
  /\ MainOff
  /\ g_pc = "read"
  /\ g_event = NoEvent
  /\ g_queue = <<>>
  /\ g_log = <<>>
  /\ g_run_disabled = FALSE
  /\ g_procs = <<>>

\* window.read returns a click on Run: only an enabled button gives one
GuiReadRun ==
  /\ g_pc = "read"
  /\ ~g_run_disabled
  /\ Len(g_procs) < MaxRuns
  /\ \E text \in PdbInputs : g_event' = Event("Run", text, 0)
  /\ g_pc' = "dispatch"
  /\ UNCHANGED <<g_queue, g_log, g_run_disabled, g_procs, coreVars>>

\* window.read returns Exit or the closing of the window: break, and with
\* main the daemon threads end
GuiReadExit ==
  /\ g_pc = "read"
  /\ g_event' = Event("Exit", <<>>, 0)
  /\ g_pc' = "closed"
  /\ UNCHANGED <<g_queue, g_log, g_run_disabled, g_procs, coreVars>>

\* window.read returns the oldest event a thread has written
GuiReadThreadEvent ==
  /\ g_pc = "read"
  /\ g_queue # <<>>
  /\ g_event' = Head(g_queue)
  /\ g_queue' = Tail(g_queue)
  /\ g_pc' = "dispatch"
  /\ UNCHANGED <<g_log, g_run_disabled, g_procs, coreVars>>

\* if event == "Run": nothing typed: popup_error, continue
GuiRunEmpty ==
  /\ g_pc = "dispatch"
  /\ g_event.key = "Run"
  /\ Strip(g_event.line) = <<>>
  /\ g_pc' = "read"
  /\ UNCHANGED <<g_event, g_queue, g_log, g_run_disabled, g_procs, coreVars>>

\* if event == "Run": clear the log, disable Run, start the thread, which
\* starts the subordinate process
GuiRunStart ==
  /\ g_pc = "dispatch"
  /\ g_event.key = "Run"
  /\ Strip(g_event.line) # <<>>
  /\ g_log' = <<>>
  /\ g_run_disabled' = TRUE
  /\ \E out \in ProcessOutputs : g_procs' = Append(g_procs, Proc(out))
  /\ g_pc' = "tail"
  /\ UNCHANGED <<g_event, g_queue, coreVars>>

\* elif event == "-OUT-": window["-LOG-"].print(values[event])
GuiOut ==
  /\ g_pc = "dispatch"
  /\ g_event.key = "-OUT-"
  /\ g_log' = Append(g_log, g_event.line)
  /\ g_pc' = "tail"
  /\ UNCHANGED <<g_event, g_queue, g_run_disabled, g_procs, coreVars>>

\* elif event == "-DONE-": print the notice, enable Run
GuiDone ==
  /\ g_pc = "dispatch"
  /\ g_event.key = "-DONE-"
  /\ g_log' = Append(g_log, Notice(g_event.rc))
  /\ g_run_disabled' = FALSE
  /\ g_pc' = "tail"
  /\ UNCHANGED <<g_event, g_queue, g_procs, coreVars>>

\* the statement after the if/elif chain:
\* if event == "-OUT-": window["-LOG-"].print(values[event])
GuiTail ==
  /\ g_pc = "tail"
  /\ g_log' = IF g_event.key = "-OUT-" THEN Append(g_log, g_event.line) ELSE g_log
  /\ g_pc' = "read"
  /\ UNCHANGED <<g_event, g_queue, g_run_disabled, g_procs, coreVars>>

\* run_cmd_in_thread: for line in proc.stdout:
\*   window.write_event_value("-OUT-", line.rstrip("\n"))
WorkerForward(i) ==
  /\ g_pc # "closed"
  /\ g_procs[i].pc = "stream"
  /\ g_procs[i].n < Len(g_procs[i].out)
  /\ g_queue' = Append(g_queue,
                       Event("-OUT-", RStripNewlines(g_procs[i].out[g_procs[i].n + 1]), 0))
  /\ g_procs' = [g_procs EXCEPT ![i].n = @ + 1]
  /\ UNCHANGED <<g_pc, g_event, g_log, g_run_disabled, coreVars>>

\* run_cmd_in_thread: proc.wait(); window.write_event_value("-DONE-", proc.returncode)
WorkerDone(i) ==
  /\ g_pc # "closed"
  /\ g_procs[i].pc = "stream"
  /\ g_procs[i].n = Len(g_procs[i].out)
  /\ \E rc \in ExitCodes :
       /\ g_queue' = Append(g_queue, Event("-DONE-", <<>>, rc))
       /\ g_procs' = [g_procs EXCEPT ![i].pc = "exited", ![i].rc = rc]
  /\ UNCHANGED <<g_pc, g_event, g_log, g_run_disabled, coreVars>>

NextGui ==
  \/ GuiReadRun \/ GuiReadExit \/ GuiReadThreadEvent
  \/ GuiRunEmpty \/ GuiRunStart \/ GuiOut \/ GuiDone \/ GuiTail
  \/ \E i \in 1..Len(g_procs) : WorkerForward(i)
  \/ \E i \in 1..Len(g_procs) : WorkerDone(i)

SpecGui == InitGui /\ [][NextGui]_vars

\* ================================================================== claims
\* ------------------------------------------------------------------ clean_pdb

RECURSIVE IsSubseq(_, _)
\* s can be obtained from t by deleting elements (order kept)
IsSubseq(s, t) ==
  IF s = <<>> THEN TRUE
  ELSE IF t = <<>> THEN FALSE
  ELSE IF Head(s) = Head(t) THEN IsSubseq(Tail(s), Tail(t))
  ELSE IsSubseq(s, Tail(t))

\* the line the loop is about to process
AtLine == c_pc = "loop" /\ c_pos <= Len(c_lines)
Finished == c_pc \in {"returned", "raised"}

\* a record line whose chain is non-empty and (case-insensitively) not in a
\* configured chain allow-list
ChainExcluded(line, cfg) ==
  /\ IsRecord(line)
  /\ cfg.keep_chains # <<>>
  /\ ChainId(line) # <<>>
  /\ \A i \in 1..Len(cfg.keep_chains) :
        Upper(Strip(cfg.keep_chains[i])) # Upper(ChainId(line))

ExampleRun ==
  /\ c_lines = <<LAtomA, LHemA, LHohB>>
  /\ c_cfg = [remove_waters |-> TRUE, remove_hetero |-> TRUE,
              keep_chains |-> <<cA>>, keep_ligands |-> <<>>]

\* C1: a record line whose chain is excluded is dropped and counted under
\* skipped_chains only, whatever its residue name and record type; and the
\* example run [ATOM chain A, HETATM HEM chain A, HOH chain B] with both
\* removals on and chains [A] writes only the ATOM line and returns
\* {waters: 0, hetero_residues: 1, skipped_chains: 1}.
C1_ChainFilterFirst ==
  /\ [][(AtLine /\ ChainExcluded(c_lines[c_pos], c_cfg)) =>
          /\ c_st'.out = c_st.out
          /\ c_st'.removed = [c_st.removed EXCEPT !.skipped_chains = @ + 1]]_vars
  /\ [](ExampleRun /\ Finished =>
          /\ c_pc = "returned"
          /\ c_st.out = <<LAtomA>>
          /\ c_st.removed =
               [waters |-> 0, hetero_residues |-> 1, skipped_chains |-> 1])

\* the example run has returned, its water line on chain B counted as a
\* skipped chain
C1_Witness ==
  ExampleRun /\ c_pc = "returned" /\ c_st.removed.skipped_chains = 1

\* C2: the lines written are record lines of the input read so far, each
\* unmodified, in input order; a line of any other type changes neither the
\* output nor a counter.
C2_OutputIsSubsequence ==
  /\ [](/\ IsSubseq(c_st.out, SubSeq(c_lines, 1, c_pos - 1))
        /\ \A i \in 1..Len(c_st.out) : IsRecord(c_st.out[i]))
  /\ [][(AtLine /\ ~IsRecord(c_lines[c_pos])) => c_st' = c_st]_vars

\* a run that passed over a line of another type, dropped nothing else and
\* wrote two lines
C2_Witness ==
  /\ c_pc = "returned"
  /\ Len(c_lines) = 3
  /\ Len(c_st.out) = 2
  /\ \E i \in 1..Len(c_lines) : ~IsRecord(c_lines[i])

\* C3: clean_pdb returns a summary only if at least one line was written and
\* raises only if none was.
C3_FailsIffNothingWritten ==
  /\ c_pc = "returned" => Len(c_st.out) >= 1
  /\ c_pc = "raised" => c_st.out = <<>>

\* a run over three record lines, all dropped, that raised
C3_Witness ==
  /\ c_pc = "raised"
  /\ Len(c_lines) = 3
  /\ c_st.removed.waters + c_st.removed.hetero_residues
       + c_st.removed.skipped_chains = 3

\* C4 (as claimed): when a chain allow-list is configured, some chain occurs
\* in the input and no chain that occurs is in the allow-list, clean_pdb
\* writes nothing and raises.
C4_AllChainsExcludedFails ==
  (/\ Finished
   /\ c_cfg.keep_chains # <<>>
   /\ \E i \in 1..Len(c_lines) : IsRecord(c_lines[i]) /\ ChainId(c_lines[i]) # <<>>
   /\ \A i \in 1..Len(c_lines) :
        IsRecord(c_lines[i]) /\ ChainId(c_lines[i]) # <<>> =>
          ChainExcluded(c_lines[i], c_cfg))
  => (c_pc = "raised" /\ c_st.out = <<>>)


\* ------------------------------------------------------------------ main: the batch

\* a step of main itself other than the call of clean_pdb (the
\* environment's steps left out)
PipelineStep ==
  \/ BatchMissing \/ ReadTargets \/ Probe \/ ProbeInstall
  \/ ResolveLocal \/ ResolveFetch \/ ResolveInvalid
  \/ DownloadOk \/ DownloadFail \/ DownloadWriteError \/ DownloadGiveUp
  \/ FetchReturned \/ FetchRaised
  \/ AddHNotRequested \/ AddHRun \/ AddHToolMissing \/ AddHSkipped
  \/ ConvertNotRequested \/ ConvertRun \/ ConvertToolMissing \/ ConvertSkipped
  \/ TargetDone \/ TargetError \/ WriteLog

IsErrorEntry(r) == "error" \in DOMAIN r
IsSuccessEntry(r) == {"fetched", "cleaned", "removed"} \subseteq DOMAIN r

\* C5: the reports are one per processed target, in target order; the
\* exception of a failing target becomes that target's error entry and the
\* loop goes on; the run never ends with a target's exception and can
\* always take its next step until the report document is written (the
\* call of clean_pdb always has its input file).
C5_OneReportPerTarget ==
  /\ [](r_pc # "crashed")
  /\ [](r_pc = "loop" => t_idx <= Len(targets) /\ Len(reports) = t_idx - 1)
  /\ [](r_pc \in {"log", "finished"} => Len(reports) = Len(targets))
  /\ [](\A i \in 1..Len(reports) : reports[i].input = targets[i])
  /\ [](IF InTarget("clean") THEN loc.fetched \in DOMAIN fs
        ELSE r_pc \in {"probe", "loop", "log"} => ENABLED PipelineStep)
  /\ [][(InTarget("except") /\ t_pc' # "except") =>
          /\ reports' = Append(reports, [input |-> T, error |-> t_exc])
          /\ r_pc' \in {"loop", "log"}]_vars

\* a finished run of two targets: the first failed, the second succeeded
C5_Witness ==
  /\ r_pc = "finished"
  /\ Len(targets) = 2
  /\ Len(log_doc) = 1
  /\ IsErrorEntry(reports[1])
  /\ IsSuccessEntry(reports[2])

\* C6: every report holds either the successful result or an error, never
\* both and never neither; an error entry holds nothing of the report that
\* was being built.
C6_SuccessXorError ==
  \A i \in 1..Len(reports) :
    \/ IsErrorEntry(reports[i]) /\ DOMAIN reports[i] = {"input", "error"}
    \/ ~IsErrorEntry(reports[i]) /\ IsSuccessEntry(reports[i])

\* a target that raised at an external step, after its report held the
\* removal summary, has been reported
C6_Witness ==
  \E i \in 1..Len(reports) :
    IsErrorEntry(reports[i]) /\ reports[i].error = ToolNotFound

\* exactly four alphanumeric characters
FourAlnum(t) == Len(t) = 4 /\ \A i \in 1..Len(t) : t[i] \in Alnum

\* C7: a target that is an existing path is used as it is, with no fetch;
\* a target that is neither an existing path nor four alphanumeric
\* characters fails resolution, becomes an error entry, and nothing is
\* requested from the remote host for it.
C7_Resolution ==
  /\ [][(InTarget("resolve") /\ t_pc' # "resolve") =>
          /\ T \in DOMAIN fs =>
               /\ t_pc' = "clean"
               /\ loc'.fetched = T
               /\ d_pc' = "idle"
               /\ requested' = requested
          /\ (T \notin DOMAIN fs /\ ~FourAlnum(T)) =>
               /\ t_pc' = "except"
               /\ t_exc' = InvalidTarget
               /\ d_pc' = "idle"
               /\ requested' = requested]_vars
  /\ [](\A i \in 1..Len(reports) :
          (targets[i] \notin DOMAIN fs /\ ~FourAlnum(targets[i])) =>
            /\ reports[i] = [input |-> targets[i], error |-> InvalidTarget]
            /\ Upper(targets[i]) \notin requested)
  /\ [](requested \subseteq
          {Upper(targets[i]) :
             i \in {j \in 1..Len(targets) :
                      FourAlnum(targets[j]) /\ targets[j] \notin DOMAIN InitialFs}})

\* a finished run over a five-character string and a local file: an error
\* entry, a report on the file itself, and no request made
C7_Witness ==
  /\ r_pc = "finished"
  /\ targets = <<tLong, tLocal>>
  /\ requested = {}
  /\ reports[1].error = InvalidTarget
  /\ IsSuccessEntry(reports[2]) /\ reports[2].fetched = tLocal

\* ------------------------------------------------------------------ download_pdb

DownloadEnded == d_pc \in {"returned", "raised"}
AllFailed == \A i \in 1..Len(d_results) : d_results[i] # "ok"
LastResult == IF d_results = <<>> THEN "None" ELSE d_results[Len(d_results)]

\* C8: at most `retries` requests are made; a failed request is followed by
\* another while attempts remain; the first successful request ends the
\* call and nothing is requested after the call ended; when all `retries`
\* requests failed the call raises the terminal error with the last failure
\* and the attempt count; the call ends.
C8_BoundedRetries ==
  /\ [](Len(d_results) <= d_retries)
  /\ \A k \in 0..MaxRetries :
       (d_pc = "attempt" /\ AllFailed /\ Len(d_results) = k /\ k < d_retries)
         ~> (Len(d_results) = k + 1)
  /\ [](d_pc = "returned" =>
          /\ LastResult = "ok"
          /\ \A i \in 1..(Len(d_results) - 1) : d_results[i] # "ok")
  /\ [][DownloadEnded => d_results' = d_results]_vars
  /\ []((d_pc = "raised" /\ AllFailed) =>
          /\ Len(d_results) = d_retries
          /\ d_exc = Exc("RuntimeError", "Failed to download", LastResult, d_retries))
  /\ []((d_pc = "attempt" /\ AllFailed /\ Len(d_results) = d_retries) =>
          ENABLED DownloadGiveUp /\ ~ENABLED DownloadOk /\ ~ENABLED DownloadFail)
  /\ <>DownloadEnded

\* three attempts, all failed, and the terminal error
C8_Witness ==
  /\ d_pc = "raised"
  /\ d_retries = 3
  /\ d_results = <<"ConnectionError", "HTTPError", "ConnectionError">>
  /\ d_exc.last_err = "ConnectionError"

\* ------------------------------------------------------------------ main: external steps

\* the cleaned file of the i-th target, the current one or one reported as
\* a success
CleanedOf(i) == IF i <= Len(reports) THEN reports[i].cleaned ELSE loc.cleaned

\* the hydrogen additions made for the i-th target
AddHRuns(i) ==
  {j \in 1..Len(tool_log) : tool_log[j].idx = i /\ tool_log[j].op = "add_hydrogens"}

\* C9: with the tool available, a hydrogen addition that exits non-zero
\* does not abort its target: the target's report is a success report
\* holding that exit status (the only error entry such a target can get is
\* the conversion step finding the tool gone, which is outside the claim's
\* premise); the file handed on to the conversion step, and the input of
\* every conversion that runs, is the hydrogenated file if hydrogen addition
\* ran and exited 0, and the cleaned file otherwise.
C9_NonZeroHydrogenExit ==
  /\ InTarget("pdbqt") =>
       IF \E j \in AddHRuns(t_idx) : tool_log[j].rc = 0
         THEN \E j \in AddHRuns(t_idx) : loc.processed = tool_log[j].output
         ELSE loc.processed = loc.cleaned
  /\ \A k \in 1..Len(tool_log) :
      LET v == tool_log[k]
      IN /\ (v.op = "add_hydrogens" /\ v.rc # 0 /\ v.idx <= Len(reports)) =>
              LET r == reports[v.idx]
              IN IF IsErrorEntry(r) THEN r.error = ToolNotFound
                 ELSE IsSuccessEntry(r) /\ r.add_hydrogens.rc = v.rc
         /\ v.op = "pdbqt" =>
              IF \E j \in AddHRuns(v.idx) : tool_log[j].rc = 0
                THEN /\ v.input # CleanedOf(v.idx)
                     /\ \E j \in AddHRuns(v.idx) : j < k /\ v.input = tool_log[j].output
                ELSE v.input = CleanedOf(v.idx)

\* a reported target whose hydrogen addition exited 1 and whose conversion
\* ran on its cleaned file
C9_Witness ==
  \E i \in 1..Len(reports) :
    /\ IsSuccessEntry(reports[i])
    /\ {"add_hydrogens", "pdbqt"} \subseteq DOMAIN reports[i]
    /\ reports[i].add_hydrogens.rc = 1
    /\ reports[i].pdbqt.cmd[1] = reports[i].cleaned

\* C10 (as claimed): a requested external step reached while the tool is
\* unavailable invokes nothing, records the skip reason and lets the target
\* go on towards its success report.
C10_UnavailableToolIsSkipped ==
  [][/\ (InTarget("add_h") /\ args.auto_add_h /\ ~avail /\ t_pc' # "add_h") =>
          /\ tool_log' = tool_log
          /\ t_pc' = "pdbqt"
          /\ "add_hydrogens_skipped" \in DOMAIN loc'.report
     /\ (InTarget("pdbqt") /\ args.auto_pdbqt /\ ~avail /\ t_pc' # "pdbqt") =>
          /\ tool_log' = tool_log
          /\ t_pc' = "append"
          /\ "pdbqt_skipped" \in DOMAIN loc'.report]_vars

\* ------------------------------------------------------------------ main: start and end of a run

\* --batch-file names a path that does not exist
BatchPathMissing == args.batch_file.given /\ ~args.batch_file.exists

\* C11: when the batch-file option names a missing path, the first step of
\* the run is its exit with status 1 and changes nothing else; a run that
\* exited so has resolved no target, requested nothing from the remote
\* host, called neither clean_pdb nor the external tool, neither probed nor
\* installed the tool, written no file and no report document, and takes no
\* further step.
C11_MissingBatchFileExits ==
  /\ [][(r_pc = "start" /\ BatchPathMissing) =>
          /\ r_pc' = "exit1"
          /\ UNCHANGED <<avail, tool_log, args, targets, obabel_ready, reports,
                         log_doc, t_idx, t_pc, loc, t_exc, cleanVars, dlVars,
                         envVars, guiVars>>]_vars
  /\ [](BatchPathMissing => r_pc \in {"start", "exit1"})
  /\ [](r_pc = "exit1" =>
          /\ BatchPathMissing
          /\ targets = <<>> /\ t_idx = 0 /\ t_pc = "none" /\ loc = NoLocals
          /\ requested = {} /\ d_pc = "idle" /\ c_pc = "idle"
          /\ tool_log = <<>> /\ obabel_ready = FALSE
          /\ fs = InitialFs
          /\ reports = <<>> /\ log_doc = <<>>
          /\ ~ENABLED Next)

\* a run asked for hydrogens with the tool missing (an install would have
\* been tried) has exited on its missing batch file
C11_Witness ==
  /\ r_pc = "exit1"
  /\ args.auto_add_h /\ ~avail

\* C12: in a run that got past the batch-file check the report document is
\* written by one step only, taken after the loop over the targets has
\* ended (every target reported, none in progress) and ending the run; no
\* document exists while targets are resolved or processed; the loop never
\* ends the run with an exception and the write is always the step that
\* follows the loop, however many targets failed; the finished run has
\* written exactly one document, which is the report list, one report per
\* target in target order.
C12_LogWrittenOnceAtEnd ==
  /\ [][log_doc' # log_doc =>
          /\ r_pc = "log" /\ r_pc' = "finished"
          /\ t_pc = "none" /\ t_idx = Len(targets) + 1
          /\ Len(reports) = Len(targets)
          /\ log_doc = <<>> /\ log_doc' = <<reports>>
          /\ reports' = reports]_vars
  /\ [](r_pc \in {"start", "probe", "loop", "log"} => log_doc = <<>>)
  /\ [](r_pc # "crashed")
  /\ [](r_pc = "log" => ENABLED WriteLog)
  /\ [][r_pc = "log" => r_pc' = "finished"]_vars
  /\ [][r_pc = "finished" => FALSE]_vars
  /\ [](r_pc = "finished" =>
          /\ log_doc = <<reports>>
          /\ Len(log_doc[1]) = Len(targets)
          /\ \A i \in 1..Len(targets) : log_doc[1][i].input = targets[i])

\* a finished run of two targets, both failed, with its document written
C12_Witness ==
  /\ r_pc = "finished"
  /\ Len(targets) = 2
  /\ \A i \in 1..2 : IsErrorEntry(reports[i])
  /\ log_doc = <<reports>>

\* ------------------------------------------------------------------ main: clean_pdb called again

\* the file clean_pdb is given for a target: the local file as it was when
\* the run started, or the body fetched for an identifier
InputOf(t) == IF t \in DOMAIN InitialFs THEN InitialFs[t] ELSE RemoteBody

\* the j-th target made main call clean_pdb with the arguments it is called
\* with for the current target: the same input and output paths (the
\* filter configuration is the same for every target of a run)
SameCallAs(j) ==
  /\ IF T \in DOMAIN InitialFs THEN targets[j] = T
     ELSE targets[j] \notin DOMAIN InitialFs /\ Upper(targets[j]) = Upper(T)
  /\ \/ ~IsErrorEntry(reports[j])
     \/ reports[j].error \in {NothingWritten, ToolNotFound}

\* C13: a second call of clean_pdb on the same input with the same filter
\* configuration, made in the state the first call left behind (its output
\* file exists), reads the same lines, fails if and only if the first call
\* failed, and otherwise leaves the output file with the same lines in the
\* same order and returns the same summary counts.
C13_SameInputSameResult ==
  /\ [](InTarget("clean") => fs[loc.fetched] = InputOf(T))
  /\ [][(InTarget("clean") /\ t_pc' # "clean") =>
          \A j \in 1..Len(reports) :
            SameCallAs(j) =>
              /\ CleanedPath \in DOMAIN fs
              /\ fs'[CleanedPath] = fs[CleanedPath]
              /\ IF IsErrorEntry(reports[j]) /\ reports[j].error = NothingWritten
                   THEN t_pc' = "except" /\ t_exc' = NothingWritten
                   ELSE /\ t_pc' = "add_h"
                        /\ ~IsErrorEntry(reports[j]) =>
                             /\ loc'.report.cleaned = reports[j].cleaned
                             /\ loc'.report.removed = reports[j].removed]_vars

\* a run that cleaned the same local file twice, dropping lines both times
C13_Witness ==
  /\ Len(reports) = 2
  /\ targets[1] = targets[2] /\ targets[1] \in DOMAIN InitialFs
  /\ IsSuccessEntry(reports[1]) /\ IsSuccessEntry(reports[2])
  /\ reports[1].removed = reports[2].removed
  /\ reports[1].removed.waters + reports[1].removed.hetero_residues
       + reports[1].removed.skipped_chains >= 2
  /\ Len(fs[reports[2].cleaned]) >= 1

\* ------------------------------------------------------------------ main: the target list

\* a line with a character that is not white space
NonBlank(l) == \E i \in 1..Len(l) : l[i] \notin WS

\* the non-blank lines of the batch file, in file order
NonBlankLines == SelectSeq(args.batch_file.lines, NonBlank)

\* the targets a run is expected to process
ExpectedTargets ==
  IF args.batch_file.given
    THEN [i \in 1..Len(NonBlankLines) |-> Strip(NonBlankLines[i])]
    ELSE <<args.pdb>>

\* the run has built its target list
PastTargets == r_pc \in {"probe", "loop", "log", "finished"}

\* C14: once the target list is built it is, for a batch file that exists,
\* the non-blank lines of the file, stripped and in file order, and
\* otherwise the single argument alone; the loop takes the targets from
\* that list in order and reports on exactly them, so with a batch file
\* the single argument is neither a target nor requested from the remote
\* host unless the file names it.
C14_TargetList ==
  /\ PastTargets => targets = ExpectedTargets
  /\ ~PastTargets => targets = <<>> /\ reports = <<>> /\ requested = {}
  /\ InTarget(t_pc) => T = ExpectedTargets[t_idx]
  /\ Len(reports) <= Len(ExpectedTargets)
  /\ \A i \in 1..Len(reports) : reports[i].input = ExpectedTargets[i]
  /\ r_pc = "finished" => Len(reports) = Len(ExpectedTargets)
  /\ requested \subseteq {Upper(ExpectedTargets[i]) : i \in 1..Len(ExpectedTargets)}

\* a finished run on a batch file of a blank line and a line with spaces
\* around a path: one target, the path, and not the single argument
C14_Witness ==
  /\ r_pc = "finished"
  /\ args.batch_file.given
  /\ args.batch_file.lines = <<NL, <<" ">> \o tLocal \o <<" ">> \o NL>>
  /\ targets = <<tLocal>>
  /\ Len(reports) = 1 /\ reports[1].input = tLocal
  /\ args.pdb = tId /\ requested = {}

\* ------------------------------------------------------------------ download_pdb: the destination

\* C15: a step of download_pdb that changes the file system is the write of
\* an attempt whose request succeeded, and it touches the destination path
\* only; when that write completes (the call returns) the destination
\* holds the full response body whatever it held before; an attempt that
\* ends in a network failure or a non-success status, and the terminal
\* error after the last of them, leave every file as it was, so a call
\* whose attempts all failed has neither created, truncated nor overwritten
\* the destination.  (A write that itself fails is not an attempt of either
\* kind: it ends the call at once and may leave part of the body.)
C15_DestinationWrittenOnSuccessOnly ==
  /\ [][fs' # fs =>
          /\ d_pc = "attempt" /\ HasAttempt(d_attempt, d_retries)
          /\ d_results' = Append(d_results, "ok")
          /\ DOMAIN fs' = DOMAIN fs \cup {d_path}
          /\ \A p \in DOMAIN fs : p # d_path => fs'[p] = fs[p]]_vars
  /\ [][d_pc' = "returned" =>
          /\ d_results' = Append(d_results, "ok")
          /\ fs' = Write(fs, d_path, RemoteBody)]_vars
  /\ [](d_pc = "returned" => d_path \in DOMAIN fs /\ fs[d_path] = RemoteBody)
  /\ [][(d_results' # d_results /\ d_results'[Len(d_results')] # "ok") =>
          fs' = fs]_vars
  /\ [][d_exc'.type = "RuntimeError" => fs' = fs]_vars
  /\ [](AllFailed =>
          fs \in {InitialFs, Write(InitialFs, d_path, FileWater)})

\* a call whose two attempts failed, one on the network and one on the
\* status, has raised with the file that was at the destination still there
C15_Witness ==
  /\ d_pc = "raised"
  /\ d_retries = 2
  /\ d_results = <<"ConnectionError", "HTTPError">>
  /\ d_path \in DOMAIN fs /\ fs[d_path] = FileWater

\* ------------------------------------------------------------------ main: the steps of a target

\* the moves of one target from step to step ("except" is errored,
\* "append" is done, both about to be reported)
StepOrder ==
  {<<"resolve", "fetch">>, <<"resolve", "clean">>, <<"resolve", "except">>,
   <<"fetch", "clean">>, <<"fetch", "except">>,
   <<"clean", "add_h">>, <<"clean", "except">>,
   <<"add_h", "pdbqt">>, <<"add_h", "except">>,
   <<"pdbqt", "append">>, <<"pdbqt", "except">>}

\* the invocations of the external tool made for the i-th target
RunsOf(i) == {k \in 1..Len(tool_log) : tool_log[k].idx = i}

\* C16: a target's step only changes along resolve, (fetch,) clean,
\* add-hydrogens, convert, done, or to errored; the clean step is entered
\* only with the target resolved to a file that exists, from a fetch only
\* when download_pdb returned; the external steps are entered only after
\* clean_pdb returned a summary, so no tool is invoked for a target whose
\* resolution, fetch or clean failed; of one target the tool is invoked at
\* most once per operation, hydrogen addition before conversion; a done or
\* errored target is left by appending exactly one report, after which the
\* next target (or the end of the loop) follows and no invocation, report
\* or step is ever made for it again.
C16_StepOrder ==
  /\ [][(r_pc = "loop" /\ t_idx' = t_idx /\ t_pc' # t_pc) =>
          <<t_pc, t_pc'>> \in StepOrder]_vars
  /\ [][(r_pc = "loop" /\ t_idx' # t_idx) =>
          /\ t_pc \in {"append", "except"}
          /\ t_idx' = t_idx + 1
          /\ Len(reports') = Len(reports) + 1
          /\ SubSeq(reports', 1, Len(reports)) = reports
          /\ reports'[t_idx].input = T
          /\ IsErrorEntry(reports'[t_idx]) <=> t_pc = "except"
          /\ t_pc' = IF t_idx' <= Len(targets) THEN "resolve" ELSE "none"]_vars
  /\ [][reports' # reports => (r_pc = "loop" /\ t_idx' = t_idx + 1)]_vars
  /\ [](r_pc = "loop" => Len(reports) = t_idx - 1)
  /\ [](r_pc \in {"log", "finished"} => t_pc = "none" /\ Len(reports) = Len(targets))
  /\ [](InTarget("clean") =>
          /\ loc.fetched \in DOMAIN fs
          /\ d_pc = "idle"
          /\ T \notin DOMAIN InitialFs => Upper(T) \in requested)
  /\ [][(InTarget("fetch") /\ t_pc' = "clean") =>
          (d_pc = "returned" /\ fs[loc.fetched] = RemoteBody)]_vars
  /\ []((InTarget("add_h") \/ InTarget("pdbqt") \/ InTarget("append")) =>
          /\ "removed" \in DOMAIN loc.report
          /\ loc.cleaned \in DOMAIN fs /\ fs[loc.cleaned] # <<>>)
  /\ [][tool_log' # tool_log =>
          /\ Len(tool_log') = Len(tool_log) + 1
          /\ SubSeq(tool_log', 1, Len(tool_log)) = tool_log
          /\ tool_log'[Len(tool_log')].idx = t_idx
          /\ tool_log'[Len(tool_log')].op =
               (IF t_pc = "add_h" THEN "add_hydrogens" ELSE "pdbqt")
          /\ InTarget("add_h") \/ InTarget("pdbqt")]_vars
  /\ [](\A j, k \in 1..Len(tool_log) :
          (j < k /\ tool_log[j].idx = tool_log[k].idx) =>
            (tool_log[j].op = "add_hydrogens" /\ tool_log[k].op = "pdbqt"))
  /\ [](\A i \in 1..Len(reports) :
          (IsErrorEntry(reports[i]) /\ reports[i].error # ToolNotFound) =>
            RunsOf(i) = {})
  /\ [](\A k \in 1..Len(tool_log) : tool_log[k].idx <= t_idx)

\* a reported target that was fetched, cleaned, hydrogenated and converted,
\* after a target that failed to resolve and had no tool invoked
C16_Witness ==
  /\ Len(reports) = 2
  /\ IsErrorEntry(reports[1]) /\ RunsOf(1) = {}
  /\ IsSuccessEntry(reports[2])
  /\ Upper(targets[2]) \in requested
  /\ Cardinality(RunsOf(2)) = 2
  /\ {"add_hydrogens", "pdbqt"} \subseteq DOMAIN reports[2]

\* ------------------------------------------------------------------ clean_pdb: water and heteroatom rules

\* a record line the chain filter lets through
PassesChainFilter(line, cfg) == IsRecord(line) /\ ~ChainExcluded(line, cfg)

\* the residue name of the line is one of the water names
WaterNamed(line) == ResName(line) \in Waters

\* the residue name of the line is in the ligand allow-list, letter case
\* and surrounding blanks of the list entries ignored
InLigandList(line, cfg) ==
  \E i \in 1..Len(cfg.keep_ligands) :
    Upper(Strip(cfg.keep_ligands[i])) = ResName(line)

\* the line is a heteroatom record
IsHetatm(line) == StartsWith(line, sHETATM)

OnlyCounted(counter) ==
  /\ c_st'.out = c_st.out
  /\ c_st'.removed = [c_st.removed EXCEPT ![counter] = @ + 1]

\* C17: of a line that passes the chain filter, (1) with water removal on a
\* water-named line of any record type is dropped and counted under waters
\* only, also when heteroatom removal is on and also when its name is in
\* the ligand allow-list; (2) a line the water rule lets through is dropped
\* and counted under hetero_residues only, if heteroatom removal is on, it
\* is a heteroatom record and its residue name is not in the allow-list,
\* and is written with no counter changed otherwise; (3) a record that is
\* not a heteroatom record never raises hetero_residues.
C17_WaterThenHetero ==
  [][(AtLine /\ PassesChainFilter(c_lines[c_pos], c_cfg)) =>
       LET line == c_lines[c_pos]
       IN /\ (c_cfg.remove_waters /\ WaterNamed(line)) => OnlyCounted("waters")
          /\ ~(c_cfg.remove_waters /\ WaterNamed(line)) =>
               IF /\ c_cfg.remove_hetero
                  /\ IsHetatm(line)
                  /\ ~InLigandList(line, c_cfg)
                 THEN OnlyCounted("hetero_residues")
                 ELSE /\ c_st'.out = Append(c_st.out, line)
                      /\ c_st'.removed = c_st.removed
          /\ ~IsHetatm(line) =>
               c_st'.removed.hetero_residues = c_st.removed.hetero_residues]_vars

\* with both removals on and HEM and HOH in the ligand allow-list, a
\* lower-case water in a heteroatom record and a water in an atom record
\* have been counted under waters and the HEM heteroatom line written
C17_Witness ==
  /\ c_cfg.remove_waters /\ c_cfg.remove_hetero
  /\ c_cfg.keep_ligands = <<rHemLower, rHohLower>>
  /\ c_cfg.keep_chains = <<cA>>
  /\ c_lines = <<LHohLower, LWatAtom, LHemA>>
  /\ c_pc = "returned"
  /\ c_st.out = <<LHemA>>
  /\ c_st.removed = [waters |-> 2, hetero_residues |-> 0, skipped_chains |-> 0]

\* ------------------------------------------------------------------ main: files of reported targets

\* the files a success report records: the fetched and cleaned files and
\* the output files of the external steps that ran
RecordedFiles(r) ==
  {r.fetched, r.cleaned}
    \cup (IF "add_hydrogens" \in DOMAIN r THEN {r.add_hydrogens.cmd[2]} ELSE {})
    \cup (IF "pdbqt" \in DOMAIN r THEN {r.pdbqt.cmd[2]} ELSE {})

\* C18 (as claimed): no step of a run changes a file recorded in a report
\* that has already been appended, also not a step of a later target that
\* resolves to the same label.
C18_ReportedFilesNotOverwritten ==
  [][\A i \in 1..Len(reports) :
       ~IsErrorEntry(reports[i]) =>
         \A p \in RecordedFiles(reports[i]) \cap DOMAIN fs :
           p \in DOMAIN fs' /\ fs'[p] = fs[p]]_vars

\* ------------------------------------------------------------------ proteinprep_gui.py: the log

\* the run started last
CurrentRun == g_procs[Len(g_procs)]

\* the lines of an output as they are forwarded
Forwarded(out) == [k \in 1..Len(out) |-> RStripNewlines(out[k])]

IsNotice(x) == \E rc \in ExitCodes : x = Notice(rc)
NotNotice(x) == ~IsNotice(x)
IsOutEvent(e) == e.key = "-OUT-"

\* the output lines the event loop has been handed so far
Handled ==
  CurrentRun.n - Len(SelectSeq(g_queue, IsOutEvent))
    - (IF g_pc = "dispatch" /\ g_event.key = "-OUT-" THEN 1 ELSE 0)

\* C19 (as claimed): the widget shows the output lines the event loop has
\* been handed, each once and in the order written; the finished notice is
\* shown last, after every line of the run; the Run button is disabled
\* exactly while a run has been started and its finished event is not yet
\* handled; at most one subordinate process is active.
C19_EachLineShownOnce ==
  g_procs # <<>> =>
    /\ \E k \in 0..Handled :
         SelectSeq(g_log, NotNotice) = SubSeq(Forwarded(CurrentRun.out), 1, k)
    /\ \A j \in 1..Len(g_log) :
         IsNotice(g_log[j]) =>
           /\ j = Len(g_log)
           /\ SubSeq(g_log, 1, j - 1) = Forwarded(CurrentRun.out)
    /\ g_run_disabled <=> \A j \in 1..Len(g_log) : ~IsNotice(g_log[j])
    /\ Cardinality({i \in 1..Len(g_procs) : g_procs[i].pc # "exited"}) <= 1

\* ------------------------------------------------------------------ clean_pdb: the counters

\* the record lines among the first n lines of the input
RecordsSeen(n) == Cardinality({i \in 1..n : IsRecord(c_lines[i])})

\* lines written and lines counted as dropped, in a loop state st
Accounted(st) ==
  Len(st.out) + st.removed.waters + st.removed.hetero_residues
    + st.removed.skipped_chains

\* C20: after every prefix of the input, lines written + waters +
\* hetero_residues + skipped_chains is the number of record lines read so
\* far; a record line either is written with no counter changed or raises
\* exactly one counter by one with nothing written; a line of another type
\* changes nothing; no counter ever decreases and the output only grows.
C20_CounterConservation ==
  /\ [](Accounted(c_st) = RecordsSeen(c_pos - 1))
  /\ [][AtLine =>
          LET r == c_st.removed
              q == c_st'.removed
              up == (q.waters - r.waters) + (q.hetero_residues - r.hetero_residues)
                      + (q.skipped_chains - r.skipped_chains)
          IN /\ q.waters \in {r.waters, r.waters + 1}
             /\ q.hetero_residues \in {r.hetero_residues, r.hetero_residues + 1}
             /\ q.skipped_chains \in {r.skipped_chains, r.skipped_chains + 1}
             /\ IF IsRecord(c_lines[c_pos])
                  THEN \/ up = 1 /\ c_st'.out = c_st.out
                       \/ up = 0 /\ c_st'.out = Append(c_st.out, c_lines[c_pos])
                  ELSE up = 0 /\ c_st'.out = c_st.out]_vars
  /\ [][c_st'.removed.waters >= c_st.removed.waters
        /\ c_st'.removed.hetero_residues >= c_st.removed.hetero_residues
        /\ c_st'.removed.skipped_chains >= c_st.removed.skipped_chains
        /\ Len(c_st'.out) >= Len(c_st.out)]_vars

\* two lines of a three-line input read: one written, one counted as water
C20_Witness ==
  /\ c_pc = "loop"
  /\ Len(c_lines) = 3 /\ c_pos = 3
  /\ Len(c_st.out) = 1
  /\ c_st.removed = [waters |-> 1, hetero_residues |-> 0, skipped_chains |-> 0]

====
